---- MODULE Spec2Model ----
(***************************************************************************)
(* Model of src/app.py: the invoice reconciliation loop procesar_pdf and   *)
(* the module-level upload loop that merges every file's line items.       *)
(* The file holds two revisions of the script: the CSV revision (lines     *)
(* 1-225) and the Excel revision (lines 226-494); `revision` says which    *)
(* one runs.                                                               *)
(*                                                                         *)
(* Python values are tagged records: [str |-> <<chars>>], [int |-> n],     *)
(* [float |-> n] (n in tenths), [none |-> TRUE], [list |-> <<values>>]     *)
(* and [dict |-> function from key to value].  A Python str is the         *)
(* sequence of its characters, so that strip(), lower(), len() and `in`    *)
(* are computed.                                                           *)
(***************************************************************************)
EXTENDS Integers, Sequences, FiniteSets, TLC

(* ------------------------------ bounds --------------------------------- *)
\* pages of the file in a one-file run (rich extractor answers)
MaxPages == 3
\* files of a multi-file run, and pages of each of its files
MaxFiles == 2
MaxPagesRun == 2

(* --------------------------- Python values ----------------------------- *)
VStr(s) == [str |-> s]
VInt(n) == [int |-> n]
VFloat(n) == [float |-> n]
VNone == [none |-> TRUE]
VList(l) == [list |-> l]
VDict(d) == [dict |-> d]

IsNone(v) == DOMAIN v = {"none"}
IsList(v) == DOMAIN v = {"list"}
IsDict(v) == DOMAIN v = {"dict"}

\* bool(v): None, 0, 0.0, "", [] and {} are falsy
Truthy(v) ==
    CASE DOMAIN v = {"none"} -> FALSE
      [] DOMAIN v = {"str"} -> v.str # <<>>
      [] DOMAIN v = {"int"} -> v.int # 0
      [] DOMAIN v = {"float"} -> v.float # 0
      [] DOMAIN v = {"list"} -> v.list # <<>>
      [] DOMAIN v = {"dict"} -> DOMAIN v.dict # {}

\* dict.get(k, default)
DictGet(d, k, default) == IF k \in DOMAIN d.dict THEN d.dict[k] ELSE default

Digit(n) ==
    CASE n = 0 -> "0" [] n = 1 -> "1" [] n = 2 -> "2" [] n = 3 -> "3"
      [] n = 4 -> "4" [] n = 5 -> "5" [] n = 6 -> "6" [] n = 7 -> "7"
      [] n = 8 -> "8" [] n = 9 -> "9"

RECURSIVE IntStr(_)
IntStr(n) == IF n < 10 THEN <<Digit(n)>> ELSE IntStr(n \div 10) \o <<Digit(n % 10)>>

\* str(v) for the values a field of the page record holds here
PyStr(v) ==
    CASE DOMAIN v = {"str"} -> v.str
      [] DOMAIN v = {"none"} -> <<"N", "o", "n", "e">>
      [] DOMAIN v = {"int"} -> IntStr(v.int)

LowerChar(c) ==
    CASE c = "A" -> "a" [] c = "B" -> "b" [] c = "C" -> "c" [] c = "D" -> "d"
      [] c = "E" -> "e" [] c = "F" -> "f" [] c = "G" -> "g" [] c = "H" -> "h"
      [] c = "I" -> "i" [] c = "J" -> "j" [] c = "K" -> "k" [] c = "L" -> "l"
      [] c = "M" -> "m" [] c = "N" -> "n" [] c = "O" -> "o" [] c = "P" -> "p"
      [] c = "Q" -> "q" [] c = "R" -> "r" [] c = "S" -> "s" [] c = "T" -> "t"
      [] c = "U" -> "u" [] c = "V" -> "v" [] c = "W" -> "w" [] c = "X" -> "x"
      [] c = "Y" -> "y" [] c = "Z" -> "z" [] OTHER -> c

\* str.lower()
Lower(s) == [k \in 1..Len(s) |-> LowerChar(s[k])]

IsSpace(c) == c \in {" ", "\t", "\n"}

RECURSIVE LStrip(_)
LStrip(s) == IF s # <<>> /\ IsSpace(Head(s)) THEN LStrip(Tail(s)) ELSE s

RECURSIVE RStrip(_)
RStrip(s) ==
    IF s # <<>> /\ IsSpace(s[Len(s)]) THEN RStrip(SubSeq(s, 1, Len(s) - 1)) ELSE s

\* str.strip()
Strip(s) == RStrip(LStrip(s))

\* sub in s
Contains(s, sub) ==
    \E k \in 0..(Len(s) - Len(sub)) : SubSeq(s, k + 1, k + Len(sub)) = sub

(* ------------------- procesar_pdf: one page's logic -------------------- *)
\* the initial value of ultimo_numero_factura, and the id the summary leaves out
SN == <<"S", "/", "N">>

COPIA == <<"c", "o", "p", "i", "a">>

\* the words that make numero_factura unusable
Centinelas ==
    { <<"n", "o", "n", "e">>,
      <<"n", "u", "l", "l">>,
      <<"c", "o", "n", "t", "i", "n", "u", "a", "c", "i", "o", "n">>,
      <<"p", "e", "n", "d", "i", "e", "n", "t", "e">> }

\* the copy filter without .lower()
EsCopia_SinLower(data) ==
    Contains(PyStr(DictGet(data, "tipo_documento", VStr(<<>>))), COPIA)

\* "copia" in str(data.get("tipo_documento", "")).lower()
EsCopia(data) ==
    Contains(Lower(PyStr(DictGet(data, "tipo_documento", VStr(<<>>)))), COPIA)

\* factura_actual = str(data.get("numero_factura", "")).strip()
FacturaActual(data) == Strip(PyStr(DictGet(data, "numero_factura", VStr(<<>>))))

\* the test of the id with the words compared as written
Inutilizable_SinLower(factura_actual) ==
    \/ factura_actual = <<>>
    \/ factura_actual \in Centinelas
    \/ Len(factura_actual) < 3

\* not factura_actual or factura_actual.lower() in [...] or len(factura_actual) < 3
Inutilizable(factura_actual) ==
    \/ factura_actual = <<>>
    \/ Lower(factura_actual) \in Centinelas
    \/ Len(factura_actual) < 3

\* factura_id of the page, given the id carried from the earlier pages
FacturaId(data, ultimo) ==
    IF Inutilizable(FacturaActual(data)) THEN ultimo ELSE FacturaActual(data)

\* ultimo_numero_factura after the page
UltimoTras(data, ultimo) ==
    IF Inutilizable(FacturaActual(data)) THEN ultimo ELSE FacturaActual(data)

\* "items" in data and isinstance(data["items"], list)
TieneItems(data) == "items" \in DOMAIN data.dict /\ IsList(data.dict["items"])

ItemsDe(data) == IF TieneItems(data) THEN data.dict["items"].list ELSE <<>>

\* item[k] = v
DictSet(item, k, v) ==
    VDict([x \in DOMAIN item.dict \cup {k} |-> IF x = k THEN v ELSE item.dict[x]])

\* if k not in item: item[k] = v
SetDefault(item, k, v) == IF k \in DOMAIN item.dict THEN item ELSE DictSet(item, k, v)

\* the Excel revision's "Asegurar campos"
AsegurarCampos(item) ==
    LET a == IF "origen" \notin DOMAIN item.dict \/ IsNone(item.dict["origen"])
             THEN DictSet(item, "origen", VStr(<<>>)) ELSE item
        b == SetDefault(a, "modelo", VStr(<<>>))
        c == SetDefault(b, "descripcion", VStr(<<>>))
        d == SetDefault(c, "cantidad", VInt(0))
    IN  SetDefault(d, "precio_unitario", VFloat(0))

\* the body of `for item in data["items"]`, up to the append
Etiquetar(rev, item, filename, factura_id) ==
    IF rev = "csv"
    THEN DictSet(DictSet(item, "Archivo_Origen", VStr(filename)),
                 "Factura_Origen", VStr(factura_id))
    ELSE AsegurarCampos(DictSet(item, "Factura_Origen", VStr(factura_id)))

\* what the page appends to items_locales; oid is the identity of the item
\* object: the k-th element of the items of page p of file f
ItemsDePagina(rev, data, filename, factura_id, f, p) ==
    [k \in 1..Len(ItemsDe(data)) |->
        [oid |-> <<f, p, k>>,
         item |-> Etiquetar(rev, ItemsDe(data)[k], filename, factura_id)]]

\* the duplicate test against the last row only
YaExiste_SoloUltima(resumen, factura_id, filename) ==
    /\ resumen # <<>>
    /\ resumen[Len(resumen)].Factura = factura_id
    /\ resumen[Len(resumen)].Archivo = filename

\* the duplicate test that looks at the file alone
YaExiste_SoloArchivo(resumen, factura_id, filename) ==
    \E k \in 1..Len(resumen) : resumen[k].Archivo = filename

\* ya_existe = any(d['Factura'] == factura_id and d['Archivo'] == filename ...)
YaExiste(resumen, factura_id, filename) ==
    \E k \in 1..Len(resumen) :
        resumen[k].Factura = factura_id /\ resumen[k].Archivo = filename

\* a summary whose row is rewritten by every page of its invoice
GuardarResumen_Sobrescribe(resumen, data, filename, factura_id) ==
    LET row == [Archivo |-> filename,
                Factura |-> factura_id,
                Total |-> DictGet(data, "total_factura", VNone),
                Cliente |-> DictGet(data, "cliente", VNone)]
    IN  IF factura_id = SN THEN resumen
        ELSE IF YaExiste(resumen, factura_id, filename)
        THEN [k \in 1..Len(resumen) |->
                IF resumen[k].Factura = factura_id /\ resumen[k].Archivo = filename
                THEN row ELSE resumen[k]]
        ELSE Append(resumen, row)

\* resumen_local after the page
GuardarResumen(resumen, data, filename, factura_id) ==
    IF ~YaExiste(resumen, factura_id, filename) /\ factura_id # SN
    THEN Append(resumen,
                [Archivo |-> filename,
                 Factura |-> factura_id,
                 Total |-> DictGet(data, "total_factura", VNone),
                 Cliente |-> DictGet(data, "cliente", VNone)])
    ELSE resumen

\* The branch the loop body takes on the answer r = (data, error) of
\* analizar_pagina.  data.get on a value that is no dict raises
\* AttributeError, and item[...] = ... on an item that is no dict raises
\* TypeError; nothing catches either.
Rama(r) ==
    IF Truthy(r.error) THEN "error"
    ELSE IF ~Truthy(r.data) THEN "omitida"
    ELSE IF ~IsDict(r.data) THEN "excepcion"
    ELSE IF EsCopia(r.data) THEN "omitida"
    ELSE IF \E k \in 1..Len(ItemsDe(r.data)) : ~IsDict(ItemsDe(r.data)[k])
         THEN "excepcion"
    ELSE "procesada"

\* the carried id taken from the record before the copy filter
UltimoDePagina_AntesDelFiltro(rama, data, ultimo) ==
    IF rama = "procesada" \/ (rama = "omitida" /\ IsDict(data))
    THEN UltimoTras(data, ultimo) ELSE ultimo

\* ultimo_numero_factura after the loop body: only the else branch, which a
\* failed, empty or copy page never enters, assigns it
UltimoDePagina(rama, data, ultimo) ==
    IF rama = "procesada" THEN UltimoTras(data, ultimo) ELSE ultimo

\* a loop that a page failure ends
PcTras_ErrorAborta(rama) == IF rama \in {"excepcion", "error"} THEN "excepcion" ELSE "paginas"

\* where control is after the loop body: an uncaught exception ends the whole
\* script run, every other branch falls through to the next iteration
PcTras(rama) == IF rama = "excepcion" THEN "excepcion" ELSE "paginas"

\* st.error(f"Error {filename} Pag {i+1}: {error}"): the reports on screen
\* after the page, each one the pair <<file, page>>
Reportar(reportes, r, f, p) ==
    IF Truthy(r.error) THEN reportes \cup {<<f, p>>} ELSE reportes

(* --------------------- the module-level upload loop -------------------- *)
\* an unreadable file returned without its error
RetornoIlegible_SinError == [resumen |-> <<>>, items |-> <<>>, error |-> VNone]

\* procesar_pdf's return when convert_from_path raises
RetornoIlegible ==
    [resumen |-> <<>>, items |-> <<>>,
     error |-> VStr(<<"E", "r", "r", "o", "r", " ", "P", "D", "F">>)]

\* procesar_pdf's return after the page loop
RetornoNormal(resumen, items) == [resumen |-> resumen, items |-> items, error |-> VNone]

\* the file's items put before those already merged
Acumular_AlFrente(gran, items) == IF items # <<>> THEN items \o gran ELSE gran

\* if items: gran_acumulado.extend(items)
Acumular(gran, items) == IF items # <<>> THEN gran \o items ELSE gran

\* if items: ... elif error: st.error(error): the report <<file, 0>>
ReportarArchivo(reportes, ret, f) ==
    IF ret.items = <<>> /\ Truthy(ret.error) THEN reportes \cup {<<f, 0>>} ELSE reportes

(* ------------------------- the inputs of a run ------------------------- *)
Nombres == { <<"a", ".", "p", "d", "f">>, <<"b", ".", "p", "d", "f">> }

ItA ==
    VDict("modelo" :> VStr(<<"M", "1">>) @@ "descripcion" :> VStr(<<"D", "1">>)
          @@ "cantidad" :> VInt(2) @@ "precio_unitario" :> VFloat(15)
          @@ "origen" :> VStr(<<"B", "R">>))
\* an item with nothing but its model
ItB == VDict("modelo" :> VStr(<<"M", "2">>))
\* an item whose origin is null
ItC ==
    VDict("modelo" :> VStr(<<"M", "3">>) @@ "descripcion" :> VStr(<<"D", "3">>)
          @@ "cantidad" :> VInt(1) @@ "precio_unitario" :> VFloat(20)
          @@ "origen" :> VNone)

Pagina(tipo, numero, items, total, cliente) ==
    VDict("tipo_documento" :> tipo @@ "numero_factura" :> numero @@ "items" :> items
          @@ "total_factura" :> total @@ "cliente" :> cliente)

Ok(data) == [data |-> data, error |-> VNone]

ORIGINAL == VStr(<<"O", "r", "i", "g", "i", "n", "a", "l">>)
K1 == VStr(<<"K", "1">>)
K2 == VStr(<<"K", "2">>)

\* analizar_pagina's answer when the call or json.loads raises
RError == [data |-> VDict(<<>>), error |-> VStr(<<"E", "r", "r", "o", "r">>)]
\* a JSON value that is no object
RLista == Ok(VList(<<VInt(1)>>))
\* a page with a usable id that strip() has to trim, and two items
RFactura ==
    Ok(Pagina(ORIGINAL, VStr(<<" ", "A", "0", "1", " ">>), VList(<<ItA, ItB>>),
              VFloat(100), K1))
\* a continuation page
RContinuacion ==
    Ok(Pagina(ORIGINAL, VStr(<<"C", "O", "N", "T", "I", "N", "U", "A", "C", "I", "O", "N">>),
              VList(<<ItC>>), VFloat(200), K2))

\* the answers of the extractor in a multi-file run
RespuestasRun == {RLista, RFactura, RContinuacion}

\* the answers of the extractor in a one-file run
RespuestasPdf ==
    RespuestasRun \cup
    { RError,
      Ok(VDict(<<>>)),
      \* a copy that carries an id and an item
      Ok(Pagina(VStr(<<"C", "o", "p", "i", "a">>), VStr(<<"9", "9", "9">>),
                VList(<<ItA>>), VFloat(50), K1)),
      \* the English marking
      Ok(Pagina(VStr(<<"C", "O", "P", "Y">>), VStr(<<"C", "7", "7">>),
                VList(<<ItA>>), VFloat(70), K2)),
      \* the id of RFactura again, with another total and customer
      Ok(Pagina(ORIGINAL, VStr(<<"A", "0", "1">>), VList(<<ItC>>), VFloat(300), K2)),
      \* null, a number and a short text as id
      Ok(Pagina(ORIGINAL, VNone, VList(<<ItA>>), VFloat(400), K1)),
      Ok(Pagina(ORIGINAL, VInt(12), VList(<<ItB>>), VNone, K2)),
      Ok(Pagina(ORIGINAL, VStr(<<" ", " ">>), VList(<<ItA>>), VFloat(500), K1)),
      \* no marking, a sentinel word in another case, items that are no list
      Ok(VDict("numero_factura" :> VStr(<<"P", "e", "n", "d", "i", "e", "n", "t", "e">>)
               @@ "items" :> VStr(<<"x">>))),
      \* a usable id and no items
      Ok(Pagina(ORIGINAL, VStr(<<"B", "0", "2">>), VList(<<>>), VFloat(600), K1)),
      \* an item that is no object
      Ok(Pagina(ORIGINAL, VStr(<<"B", "0", "2">>), VList(<<ItA, VStr(<<"x">>)>>),
                VFloat(600), K1)) }

Respuestas(ext) == IF ext = "pdf" THEN RespuestasPdf ELSE RespuestasRun

\* the most pages convert_from_path yields
PagesBound(ext) == IF ext = "pdf" THEN MaxPages ELSE MaxPagesRun

(* ------------------------------- state --------------------------------- *)
VARIABLES
    revision,               \* "csv" (lines 1-225) or "excel" (lines 226-494)
    extractor,              \* "pdf": a one-file run, "run": a multi-file run
    uploaded_files,         \* the names of the uploaded files, in upload order
    pc,                     \* "archivo", "paginas", "fin" or "excepcion"
    f,                      \* index of the current uploaded_file
    images,                 \* number of pages of the current file
    i,                      \* pages of the current file processed so far
    paginas,                \* analizar_pagina's answers for those pages
    ultimo_numero_factura,
    items_locales,
    resumen_local,
    retorno,                \* resumen, items, error of the last procesar_pdf call
    gran_acumulado,
    reportes,               \* the st.error reports: <<file, page>>, page 0 = the file
    exportado               \* the rows handed to pd.DataFrame for the download

vars ==
    <<revision, extractor, uploaded_files, pc, f, images, i, paginas,
      ultimo_numero_factura, items_locales, resumen_local, retorno,
      gran_acumulado, reportes, exportado>>

entrada == <<revision, extractor, uploaded_files>>
locales == <<images, i, paginas, ultimo_numero_factura, items_locales, resumen_local>>

SeqsUpTo(S, n) == UNION {[1..k -> S] : k \in 1..n}

Init ==
    /\ revision \in {"csv", "excel"}
    /\ \/ extractor = "pdf" /\ uploaded_files \in SeqsUpTo(Nombres, 1)
       \/ extractor = "run" /\ uploaded_files \in SeqsUpTo(Nombres, MaxFiles)
    /\ pc = "archivo"
    /\ f = 1
    /\ images = 0
    /\ i = 0
    /\ paginas = <<>>
    /\ ultimo_numero_factura = SN
    /\ items_locales = <<>>
    /\ resumen_local = <<>>
    /\ retorno = RetornoNormal(<<>>, <<>>)
    /\ gran_acumulado = <<>>
    /\ reportes = {}
    /\ exportado = <<>>

\* procesar_pdf is called for the next file and convert_from_path succeeds
AbrirPdf ==
    /\ pc = "archivo"
    /\ f <= Len(uploaded_files)
    /\ \E n \in 0..PagesBound(extractor) : images' = n
    /\ i' = 0
    /\ paginas' = <<>>
    /\ ultimo_numero_factura' = SN
    /\ items_locales' = <<>>
    /\ resumen_local' = <<>>
    /\ pc' = "paginas"
    /\ UNCHANGED <<entrada, f, retorno, gran_acumulado, reportes, exportado>>

\* procesar_pdf is called for the next file and convert_from_path raises;
\* the upload loop reports the error and goes on to the next file
PdfIlegible ==
    /\ pc = "archivo"
    /\ f <= Len(uploaded_files)
    /\ retorno' = RetornoIlegible
    /\ gran_acumulado' = Acumular(gran_acumulado, RetornoIlegible.items)
    /\ reportes' = ReportarArchivo(reportes, RetornoIlegible, f)
    /\ f' = f + 1
    /\ images' = 0
    /\ i' = 0
    /\ paginas' = <<>>
    /\ ultimo_numero_factura' = SN
    /\ items_locales' = <<>>
    /\ resumen_local' = <<>>
    /\ UNCHANGED <<entrada, pc, exportado>>

\* one iteration of `for i, img in enumerate(images)`
ProcesarPagina ==
    /\ pc = "paginas"
    /\ i < images
    /\ \E r \in Respuestas(extractor) :
        LET filename == uploaded_files[f]
            rama == Rama(r)
            factura_id == FacturaId(r.data, ultimo_numero_factura)
        IN  /\ paginas' = Append(paginas, r)
            /\ reportes' = Reportar(reportes, r, f, i + 1)
            /\ ultimo_numero_factura' = UltimoDePagina(rama, r.data, ultimo_numero_factura)
            /\ IF rama = "procesada"
               THEN /\ items_locales' =
                         items_locales \o
                         ItemsDePagina(revision, r.data, filename, factura_id, f, i + 1)
                    /\ resumen_local' =
                         GuardarResumen(resumen_local, r.data, filename, factura_id)
               ELSE UNCHANGED <<items_locales, resumen_local>>
            /\ pc' = PcTras(rama)
            /\ i' = IF PcTras(rama) = "paginas" THEN i + 1 ELSE i
    /\ UNCHANGED <<entrada, f, images, retorno, gran_acumulado, exportado>>

\* the page loop is over: procesar_pdf returns and the upload loop merges
Retornar ==
    /\ pc = "paginas"
    /\ i = images
    /\ retorno' = RetornoNormal(resumen_local, items_locales)
    /\ gran_acumulado' = Acumular(gran_acumulado, items_locales)
    /\ reportes' = ReportarArchivo(reportes, RetornoNormal(resumen_local, items_locales), f)
    /\ f' = f + 1
    /\ pc' = "archivo"
    /\ UNCHANGED <<entrada, locales, exportado>>

\* after the last file: if gran_acumulado: the rows go to the export
Exportar ==
    /\ pc = "archivo"
    /\ f > Len(uploaded_files)
    /\ exportado' = IF gran_acumulado # <<>> THEN gran_acumulado ELSE <<>>
    /\ pc' = "fin"
    /\ UNCHANGED <<entrada, f, locales, retorno, gran_acumulado, reportes>>

Next == AbrirPdf \/ PdfIlegible \/ ProcesarPagina \/ Retornar \/ Exportar

Spec == Init /\ [][Next]_vars

(* ======================= properties of the run ========================= *)
\* the step is an iteration of the page loop, on the answer NuevaRespuesta
PaginaNueva == Len(paginas') = Len(paginas) + 1
NuevaRespuesta == paginas'[Len(paginas')]

COPY == <<"c", "o", "p", "y">>

\* the record's marking, read without regard to case, contains the word
MarcaContiene(r, palabra) ==
    /\ IsDict(r.data)
    /\ "tipo_documento" \in DOMAIN r.data.dict
    /\ Contains(Lower(PyStr(r.data.dict["tipo_documento"])), palabra)

\* a page that is not skipped: no failure, a non-empty object that is not
\* marked as a copy, whose items (when a list) are objects
NoOmitida(r) ==
    /\ ~Truthy(r.error)
    /\ IsDict(r.data)
    /\ DOMAIN r.data.dict # {}
    /\ ~MarcaContiene(r, COPIA)
    /\ \A k \in 1..Len(ItemsDe(r.data)) : IsDict(ItemsDe(r.data)[k])

\* the trimmed numero_factura of the record, as text
Recortado(r) ==
    LET v == IF "numero_factura" \in DOMAIN r.data.dict
             THEN r.data.dict["numero_factura"] ELSE VStr(<<>>)
    IN  Strip(PyStr(v))

\* empty, one of the four words in any case, or shorter than 3 characters
IdInutilizable(s) ==
    \/ Len(s) = 0
    \/ \E w \in Centinelas : Len(w) = Len(s) /\ \A k \in 1..Len(s) : LowerChar(s[k]) = w[k]
    \/ Len(s) \in {1, 2}

Max(S) == CHOOSE x \in S : \A y \in S : y <= x
Min(S) == CHOOSE x \in S : \A y \in S : x <= y

\* the resolved id of the non-skipped page p of the log: its own trimmed id
\* when usable, else that of the nearest non-skipped page before it, else S/N
RECURSIVE Resuelto(_, _)
Resuelto(log, p) ==
    IF ~IdInutilizable(Recortado(log[p])) THEN Recortado(log[p])
    ELSE LET antes == {q \in 1..(p - 1) : NoOmitida(log[q])}
         IN  IF antes = {} THEN SN ELSE Resuelto(log, Max(antes))

(* ---- C1 ---- *)
\* C1, as stated: a page whose marking contains "copia" or "copy" in any case
\* appends no line item and no summary row.
C1_CopiaOCopy ==
    [][ (PaginaNueva /\ ~Truthy(NuevaRespuesta.error)
         /\ (MarcaContiene(NuevaRespuesta, COPIA) \/ MarcaContiene(NuevaRespuesta, COPY)))
        => (items_locales' = items_locales /\ resumen_local' = resumen_local) ]_vars

\* C1, amended: a page whose marking contains "copia" in any case appends no
\* line item and no summary row (the English "copy" is not a copy marking).
C1_CopiaOmitida ==
    [][ (PaginaNueva /\ ~Truthy(NuevaRespuesta.error)
         /\ MarcaContiene(NuevaRespuesta, COPIA))
        => (items_locales' = items_locales /\ resumen_local' = resumen_local) ]_vars

\* a copy with an id and an item went through the loop after a page with items
C1_Witness ==
    /\ Len(paginas) >= 2
    /\ i = Len(paginas)
    /\ MarcaContiene(paginas[Len(paginas)], COPIA)
    /\ ItemsDe(paginas[Len(paginas)].data) # <<>>
    /\ ~IdInutilizable(Recortado(paginas[Len(paginas)]))
    /\ items_locales # <<>>
    /\ \A k \in 1..Len(items_locales) : items_locales[k].oid[2] < Len(paginas)

(* ---- C2 ---- *)
\* C2: every item of a non-skipped page is stamped with the page's resolved
\* id: the trimmed id when usable, else the resolved id of the nearest
\* non-skipped page before it in the same file, and S/N when no earlier page
\* of this file had a usable id, whatever earlier files produced.
C2_FacturaOrigen ==
    \A k \in 1..Len(items_locales) :
        LET e == items_locales[k]
            p == e.oid[2]
            stamp == e.item.dict["Factura_Origen"]
        IN  /\ p \in 1..Len(paginas)
            /\ NoOmitida(paginas[p])
            /\ stamp = VStr(Resuelto(paginas, p))
            /\ ~IdInutilizable(Recortado(paginas[p])) => stamp = VStr(Recortado(paginas[p]))
            /\ (\A q \in 1..p : NoOmitida(paginas[q]) => IdInutilizable(Recortado(paginas[q])))
                 => stamp = VStr(SN)

\* the first file carried an id onto its continuation page (ItC comes from
\* RContinuacion alone in a multi-file run), and the second file, which starts
\* with a continuation page, stamps S/N on it
C2_Witness ==
    /\ extractor = "run"
    /\ f = 2
    /\ \E k \in 1..Len(gran_acumulado) :
          /\ gran_acumulado[k].oid[2] = 2
          /\ gran_acumulado[k].item.dict["modelo"] = ItC.dict["modelo"]
          /\ gran_acumulado[k].item.dict["Factura_Origen"] = VStr(<<"A", "0", "1">>)
    /\ \E k \in 1..Len(items_locales) :
          /\ items_locales[k].oid[2] = 1
          /\ IdInutilizable(Recortado(paginas[1]))
          /\ items_locales[k].item.dict["Factura_Origen"] = VStr(SN)
(* ---- C3 ---- *)
FilasDistintas(resumen) ==
    /\ \A a, b \in 1..Len(resumen) :
          (resumen[a].Archivo = resumen[b].Archivo /\ resumen[a].Factura = resumen[b].Factura)
              => a = b
    /\ \A a \in 1..Len(resumen) : resumen[a].Factura # SN

C3_Filas == FilasDistintas(resumen_local) /\ FilasDistintas(retorno.resumen)

C3_Paso ==
    (/\ PaginaNueva
     /\ NoOmitida(NuevaRespuesta)
     /\ \E k \in 1..Len(resumen_local) :
           /\ resumen_local[k].Archivo = uploaded_files[f]
           /\ resumen_local[k].Factura = Resuelto(paginas', Len(paginas')))
    => /\ Len(resumen_local') = Len(resumen_local)
       /\ Len(items_locales') = Len(items_locales) + Len(ItemsDe(NuevaRespuesta.data))
       /\ SubSeq(items_locales', 1, Len(items_locales)) = items_locales

\* C3: the summary never holds two rows with the same (Archivo, Factura) nor a
\* row whose Factura is S/N; a page that resolves to a pair already present
\* appends its line items and leaves the number of summary rows unchanged.
C3_ResumenSinDuplicados == []C3_Filas /\ [][C3_Paso]_vars

\* two pages resolved to the same id: items of both, one summary row
C3_Witness ==
    /\ Len(resumen_local) = 1
    /\ \E a, b \in 1..Len(items_locales) :
          /\ items_locales[a].oid[2] # items_locales[b].oid[2]
          /\ items_locales[a].item.dict["Factura_Origen"] = VStr(resumen_local[1].Factura)
          /\ items_locales[b].item.dict["Factura_Origen"] = VStr(resumen_local[1].Factura)

(* ---- C4 ---- *)
CamposBase == {"modelo", "descripcion", "cantidad", "precio_unitario", "origen"}

\* the item as the extractor gave it
Extraido(e) == ItemsDe(paginas[e.oid[2]].data)[e.oid[3]].dict

\* C4: every line item of the file has the five base fields: cantidad 0 and
\* precio_unitario 0.0 when it arrived without them, origen "" when it arrived
\* without origen or with null; a field that arrived non-null keeps its value.
C4_CamposBase ==
    \A k \in 1..Len(items_locales) :
        LET e == items_locales[k]
            d == e.item.dict
            x == Extraido(e)
        IN  /\ CamposBase \subseteq DOMAIN d
            /\ "cantidad" \notin DOMAIN x => d["cantidad"] = VInt(0)
            /\ "precio_unitario" \notin DOMAIN x => d["precio_unitario"] = VFloat(0)
            /\ ("origen" \notin DOMAIN x \/ IsNone(x["origen"])) => d["origen"] = VStr(<<>>)
            /\ \A c \in CamposBase \cap DOMAIN x : ~IsNone(x[c]) => d[c] = x[c]

(* ---- C5 ---- *)
C5_Paso ==
    (PaginaNueva /\ Truthy(NuevaRespuesta.error))
    => /\ items_locales' = items_locales
       /\ resumen_local' = resumen_local
       /\ <<f, Len(paginas')>> \in reportes'
       /\ pc' = "paginas"
       /\ i' = i + 1
       /\ images' = images

C5_Retorno ==
    (pc = "archivo" /\ \E k \in 1..Len(paginas) : Truthy(paginas[k].error))
    => /\ Len(paginas) = images
       /\ retorno = RetornoNormal(resumen_local, items_locales)
       /\ <<f - 1, 0>> \notin reportes

\* C5: a page for which analizar_pagina returns a failure is reported, adds no
\* line item and no summary row, and the loop goes on to the next page; the
\* file's call reaches its last page and returns without a file-level error.
C5_ErrorDePagina == [][C5_Paso]_vars /\ []C5_Retorno

\* the first page failed, a later page of the file contributed, the call returned
C5_Witness ==
    /\ pc = "archivo"
    /\ Len(paginas) >= 2
    /\ Truthy(paginas[1].error)
    /\ <<f - 1, 1>> \in reportes
    /\ retorno.items # <<>>
    /\ retorno.resumen # <<>>

(* ---- C6 ---- *)
\* C6: an answer without failure whose data is no object is treated like an
\* empty record: no item, no summary row, and the loop goes on to the next
\* page.
C6_RegistroInutilizable ==
    [][ (PaginaNueva /\ ~Truthy(NuevaRespuesta.error) /\ ~IsDict(NuevaRespuesta.data))
        => /\ items_locales' = items_locales
           /\ resumen_local' = resumen_local
           /\ pc' = "paginas"
           /\ i' = i + 1 ]_vars
(* ---- C7 ---- *)
Etiquetado(e) ==
    /\ "Archivo_Origen" \in DOMAIN e.item.dict
    /\ e.item.dict["Archivo_Origen"] = VStr(uploaded_files[e.oid[1]])
    /\ "Factura_Origen" \in DOMAIN e.item.dict

\* C7: every line item, of the file in hand and of the merged collection,
\* carries the name of the file it was extracted from and a resolved invoice
\* id, so that items of two files with the same id differ in (file, id).
C7_EtiquetaDeArchivo ==
    /\ \A k \in 1..Len(items_locales) : Etiquetado(items_locales[k])
    /\ \A k \in 1..Len(gran_acumulado) : Etiquetado(gran_acumulado[k])
    /\ \A a, b \in 1..Len(gran_acumulado) :
          uploaded_files[gran_acumulado[a].oid[1]] # uploaded_files[gran_acumulado[b].oid[1]]
              => gran_acumulado[a].item # gran_acumulado[b].item

(* ---- C8 ---- *)
\* (file, page, item) of a before that of b
LexMenor(a, b) ==
    \/ a[1] < b[1]
    \/ a[1] = b[1] /\ a[2] < b[2]
    \/ a[1] = b[1] /\ a[2] = b[2] /\ a[3] < b[3]

EnOrden(seq) ==
    \A a, b \in 1..Len(seq) : (a < b) <=> LexMenor(seq[a].oid, seq[b].oid)

EsPrefijo(s, t) == Len(s) <= Len(t) /\ SubSeq(t, 1, Len(s)) = s

C8_Orden ==
    /\ EnOrden(items_locales)
    /\ EnOrden(gran_acumulado)
    /\ pc = "fin" => exportado = gran_acumulado

C8_Paso ==
    /\ EsPrefijo(gran_acumulado, gran_acumulado')
    /\ (pc = "paginas" /\ pc' = "archivo") => gran_acumulado' = gran_acumulado \o items_locales

\* C8: the merged collection lists the items by file, then page, then place
\* in the page's list: a is before b exactly when its (file, page, item) is
\* the smaller; no step reorders or removes an item already merged, and the
\* export receives the collection as it is.
C8_OrdenDeExportacion == []C8_Orden /\ [][C8_Paso]_vars

\* the export holds items of two files, of two pages of one file and two
\* items of one page
C8_Witness ==
    /\ pc = "fin"
    /\ \E a, b, c, d \in 1..Len(exportado) :
          /\ exportado[a].oid[1] # exportado[b].oid[1]
          /\ exportado[b].oid[1] = exportado[c].oid[1]
          /\ exportado[b].oid[2] # exportado[c].oid[2]
          /\ exportado[c].oid[1] = exportado[d].oid[1]
          /\ exportado[c].oid[2] = exportado[d].oid[2]
          /\ c # d

(* ---- C9 ---- *)
\* the pages of the log that resolved to the id
PaginasDe(log, id) == {q \in 1..Len(log) : NoOmitida(log[q]) /\ Resuelto(log, q) = id}

Campo(r, k) == IF k \in DOMAIN r.data.dict THEN r.data.dict[k] ELSE VNone

C9_Filas ==
    \A k \in 1..Len(resumen_local) :
        LET row == resumen_local[k]
            ps == PaginasDe(paginas, row.Factura)
        IN  /\ ps # {}
            /\ row.Total = Campo(paginas[Min(ps)], "total_factura")
            /\ row.Cliente = Campo(paginas[Min(ps)], "cliente")

C9_Paso == pc = "paginas" => EsPrefijo(resumen_local, resumen_local')

\* C9: a summary row keeps the total_factura and cliente of the first page
\* that resolved to its id, and no later page of the file changes or removes
\* a row.
C9_PrimeraGana == []C9_Filas /\ [][C9_Paso]_vars

\* two pages resolved to one id with different totals and customers
C9_Witness ==
    \E p, q \in 1..Len(paginas) :
        /\ p < q
        /\ NoOmitida(paginas[p]) /\ NoOmitida(paginas[q])
        /\ Resuelto(paginas, p) = Resuelto(paginas, q)
        /\ Campo(paginas[p], "total_factura") # Campo(paginas[q], "total_factura")
        /\ Campo(paginas[p], "cliente") # Campo(paginas[q], "cliente")
        /\ \E k \in 1..Len(resumen_local) :
              /\ resumen_local[k].Factura = Resuelto(paginas, p)
              /\ resumen_local[k].Total = Campo(paginas[p], "total_factura")

(* ---- C10 ---- *)
\* the step of a file whose convert_from_path raised: the only one that moves
\* to the next file without entering the page loop
C10_Paso ==
    (pc = "archivo" /\ f' = f + 1)
    => /\ retorno'.resumen = <<>>
       /\ retorno'.items = <<>>
       /\ Truthy(retorno'.error)
       /\ <<f, 0>> \in reportes'
       /\ gran_acumulado' = gran_acumulado
       /\ pc' = "archivo"

C10_Otros ==
    /\ (pc = "paginas" /\ pc' = "archivo")
          => (f' = f + 1 /\ gran_acumulado' = gran_acumulado \o items_locales)
    /\ pc' = "fin" => f = Len(uploaded_files) + 1

C10_Fin ==
    \A k \in 1..Len(gran_acumulado) : <<gran_acumulado[k].oid[1], 0>> \notin reportes

\* C10: a file that cannot be rasterized returns empty collections and an
\* error, which is reported; it adds nothing to the merged collection, and
\* the loop goes on: every other file is processed and its items are merged.
C10_ArchivoIlegible == [][C10_Paso /\ C10_Otros]_vars /\ []C10_Fin

\* the first file was unreadable and the run ended with items of the second
C10_Witness ==
    /\ pc = "fin"
    /\ <<1, 0>> \in reportes
    /\ \E k \in 1..Len(exportado) : exportado[k].oid[1] = 2

(* ---- C11 ---- *)
\* a skipped page: a failure, an empty record or a copy marking
Omitida(r) ==
    \/ Truthy(r.error)
    \/ ~Truthy(r.data)
    \/ MarcaContiene(r, COPIA)

\* the id carried after the log: that of its last non-skipped page, else S/N
Arrastrado(log) ==
    LET ps == {q \in 1..Len(log) : NoOmitida(log[q])}
    IN  IF ps = {} THEN SN ELSE Resuelto(log, Max(ps))

C11_Paso ==
    (PaginaNueva /\ Omitida(NuevaRespuesta))
    => /\ ultimo_numero_factura' = ultimo_numero_factura
       /\ items_locales' = items_locales
       /\ resumen_local' = resumen_local

\* while the file is in hand, the carried id and every stamp come from the
\* non-skipped pages alone
C11_Arrastre ==
    pc = "paginas"
    => /\ ultimo_numero_factura = Arrastrado(paginas)
       /\ \A k \in 1..Len(items_locales) :
             LET p == items_locales[k].oid[2]
             IN  (IdInutilizable(Recortado(paginas[p])))
                 => items_locales[k].item.dict["Factura_Origen"]
                      = VStr(Arrastrado(SubSeq(paginas, 1, p - 1)))

\* C11: a skipped page leaves ultimo_numero_factura, the items and the summary
\* unchanged even when its record holds a usable numero_factura, so a later
\* page with an unusable id resolves to the id carried from before the
\* skipped page and never to the skipped page's own id.
C11_OmitidaSinEfecto == [][C11_Paso]_vars /\ []C11_Arrastre

\* a usable page, then a copy that holds another usable id, then a page with
\* an unusable id whose item carries the first page's id
C11_Witness ==
    /\ pc = "paginas"
    /\ Len(paginas) = 3
    /\ NoOmitida(paginas[1]) /\ ~IdInutilizable(Recortado(paginas[1]))
    /\ MarcaContiene(paginas[2], COPIA) /\ ~IdInutilizable(Recortado(paginas[2]))
    /\ Recortado(paginas[2]) # Recortado(paginas[1])
    /\ NoOmitida(paginas[3]) /\ IdInutilizable(Recortado(paginas[3]))
    /\ \E k \in 1..Len(items_locales) :
          /\ items_locales[k].oid[2] = 3
          /\ items_locales[k].item.dict["Factura_Origen"] = VStr(Recortado(paginas[1]))
    /\ ultimo_numero_factura = Recortado(paginas[1])

(* ---- C12 ---- *)
\* the summary has a row for the item's (file, Factura_Origen)
TieneFila(e, resumen) ==
    \E k \in 1..Len(resumen) :
        /\ resumen[k].Archivo = uploaded_files[e.oid[1]]
        /\ VStr(resumen[k].Factura) = e.item.dict["Factura_Origen"]

\* C12: after each page, every line item of the file whose Factura_Origen is
\* not S/N has a summary row with the same file and id (a row may have no
\* item: a page with a usable id and no items still adds its row).
C12_ItemConFila ==
    \A k \in 1..Len(items_locales) :
        items_locales[k].item.dict["Factura_Origen"] # VStr(SN)
            => TieneFila(items_locales[k], resumen_local)

\* items under two ids, each with its row, and a third row that no item has
C12_Witness ==
    /\ \E a, b \in 1..Len(items_locales) :
          /\ items_locales[a].item.dict["Factura_Origen"] # VStr(SN)
          /\ items_locales[b].item.dict["Factura_Origen"] # VStr(SN)
          /\ items_locales[a].item.dict["Factura_Origen"]
               # items_locales[b].item.dict["Factura_Origen"]
    /\ \E k \in 1..Len(resumen_local) :
          \A a \in 1..Len(items_locales) :
              items_locales[a].item.dict["Factura_Origen"] # VStr(resumen_local[k].Factura)
====
